---- MODULE Spec2Model ----
(***************************************************************************)
(* Model of gcp_video_processor/video_processor.py: the two run scans      *)
(* (_get_steady_clips, _get_best_moments), the action analysis and the     *)
(* pipeline generate_highlight_video.                                      *)
(*                                                                         *)
(* Time is counted in ticks of 1/TicksPerSecond seconds, so that the       *)
(* minimum durations (1.0 s and 2.0 s) are whole numbers of ticks and a    *)
(* run can be shorter than, equal to or longer than the minimum.  Scores   *)
(* are integers.  The action threshold is kept multiplied by PercentScale  *)
(* (np.percentile interpolates linearly between two scores, with a         *)
(* fraction that is a whole number of hundredths when the percentile is a  *)
(* whole number); floating point rounding is not modelled.                 *)
(***************************************************************************)
EXTENDS Integers, Sequences, FiniteSets, TLC

\* ---- bounds of the model ----
TicksPerSecond == 2
\* largest sample timestamp (ticks) and longest sample list of the scan inputs
MaxTime == 5
MaxLen == 4
\* longest source clip of the pipeline, in ticks
MaxClipTicks == 8
\* longest list of action scores given to _get_best_moments taken alone
MaxScores == 6

\* ---- program constants ----
\* MIN_CLIP_DURATION_STEADY = 1.0 (seconds), in ticks
MIN_CLIP_DURATION_STEADY == 1 * TicksPerSecond
\* MIN_ACTION_CLIP_DURATION = 2.0 (seconds), in ticks
MIN_ACTION_CLIP_DURATION == 2 * TicksPerSecond
\* the 100 of percentile_threshold * 100 and (100 - top_percent) / 100.0
PercentScale == 100
\* blur_threshold=60, top_percent=20: the defaults of generate_highlight_video
DefaultBlurThreshold == 60
DefaultTopPercent == 20

\* current_start = None
None == -1

\* ---- input domains ----
\* scores below, equal to and above the threshold 60
Scores == {10, 60, 70}
Thresholds == {DefaultBlurThreshold}
Durations == 0 .. (MaxTime + MIN_ACTION_CLIP_DURATION)
\* sharpness of a frame of the pipeline's source: equal to / above blur_threshold
Sharpness == {60, 70}
\* mean optical-flow magnitudes drawn for the frame transitions
Magnitudes == {0, 1, 2}
TopPercents == {DefaultTopPercent, 80}

\* 10 samples at 1 fps (timestamps 0..9 s) with the scores of Scenario A
ScenarioScores == <<10, 70, 80, 70, 10, 10, 70, 80, 70, 10>>
ScenarioA == [i \in 1 .. 10 |-> <<(i - 1) * TicksPerSecond, ScenarioScores[i]>>]
ScenarioDuration == 10 * TicksPerSecond

VARIABLES
    pc,               \* position in generate_highlight_video
    readable,         \* whether VideoFileClip(input_path) can open the source
    fps,              \* original_clip.fps in frames per second; 0: absent or zero
    clip_duration,    \* original_clip.duration (ticks)
    frames,           \* the frames iter_frames yields: <<timestamp, sharpness>>
    blur_threshold,
    top_percent,
    top_percent2,     \* a second top_percent, the same scores are compared under
    main,             \* state of process_video_from_gcs (main.py), a record
    idx,              \* number of elements the running loop has consumed
    current_start,    \* local of the running scan
    good_segments,    \* local of the running scan: <<start, end>> pairs
    steady_clips,     \* result of _get_steady_clips
    steady_duration,  \* steady_video.duration (ticks)
    action_scores,    \* <<timestamp, score>> pairs
    prev_frame,       \* index of the frame held in prev_gray (None: none)
    action_threshold, \* np.percentile result, times PercentScale
    best_clips,       \* result of _get_best_moments
    open,             \* clips created and not closed
    closed,           \* clips on which close() was called
    write_calls,      \* calls of write_videofile started
    written,          \* <<clips>> of each final video written to completion
    success,          \* local success: "unset", "True", "False"
    result,           \* returned value: "none", "True", "False"
    abort,            \* why the run aborted: "none", "open", "no_steady", ...
    raised            \* exception that left the function: "none" or its name

vars == <<pc, readable, fps, clip_duration, frames, blur_threshold, top_percent,
          top_percent2, main, idx,
          current_start, good_segments, steady_clips, steady_duration,
          action_scores, prev_frame, action_threshold, best_clips, open,
          closed, write_calls, written, success, result, abort, raised>>

scanVars == <<idx, current_start, good_segments>>
\* the inputs of a run, and the caller's state, which no step of
\* generate_highlight_video changes
inputVars == <<readable, fps, clip_duration, frames, blur_threshold, top_percent,
               top_percent2, main>>
historyVars == <<write_calls, written, success, result, abort, raised>>

\* process_video_from_gcs is not running
MainIdle == [pc |-> "idle"]

\* ---- helpers ----
Range(s) == {s[i] : i \in 1 .. Len(s)}
Last(s) == s[Len(s)]
Min2(a, b) == IF a <= b THEN a ELSE b

RECURSIVE SumDurations(_)
SumDurations(clips) ==
    IF clips = <<>> THEN 0
    ELSE (Last(clips).end - Last(clips).start)
         + SumDurations(SubSeq(clips, 1, Len(clips) - 1))

\* ---- the run scan of _get_steady_clips (lines 33-44) ----
\* `if sharpness > blur_threshold`
SteadyActiveGE(sharpness, threshold) == sharpness >= threshold
SteadyActive(sharpness, threshold) == sharpness > threshold

\* `duration = timestamp - current_start; if duration >= MIN_CLIP_DURATION_STEADY`
SteadyKeeps(start, timestamp) == timestamp - start >= MIN_CLIP_DURATION_STEADY

\* `current_start = None` after a run was closed
SteadyAfterClose(start) == None

\* one pass of the loop body: the new (current_start, good_segments)
SteadyBody(cs, segs, timestamp, sharpness, threshold) ==
    IF SteadyActive(sharpness, threshold)
    THEN [cs |-> IF cs = None THEN timestamp ELSE cs, segs |-> segs]
    ELSE IF cs # None
         THEN [cs |-> SteadyAfterClose(cs),
               segs |-> IF SteadyKeeps(cs, timestamp)
                        THEN Append(segs, <<cs, timestamp>>)
                        ELSE segs]
         ELSE [cs |-> cs, segs |-> segs]

\* ---- the run scan of _get_best_moments (lines 102-116) ----
\* `if score > action_threshold`; the threshold is held times PercentScale
ActionActiveGE(score, threshold) == score * PercentScale >= threshold
ActionActive(score, threshold) == score * PercentScale > threshold

\* `duration = timestamp - current_start; if duration >= MIN_ACTION_CLIP_DURATION`
ActionKeepsAny(start, timestamp) == TRUE
ActionKeeps(start, timestamp) == timestamp - start >= MIN_ACTION_CLIP_DURATION

ActionAfterCloseKeep(start) == start
ActionAfterClose(start) == None

ActionBody(cs, segs, timestamp, score, threshold) ==
    IF ActionActive(score, threshold)
    THEN [cs |-> IF cs = None THEN timestamp ELSE cs, segs |-> segs]
    ELSE IF cs # None
         THEN [cs |-> ActionAfterClose(cs),
               segs |-> IF ActionKeeps(cs, timestamp)
                        THEN Append(segs, <<cs, timestamp>>)
                        ELSE segs]
         ELSE [cs |-> cs, segs |-> segs]

\* lines 113-116: a run still open after the loop is closed against the duration
ActionTailDropped(cs, segs, duration) == segs
ActionTailUnchecked(cs, segs, duration) ==
    IF cs # None THEN Append(segs, <<cs, duration>>) ELSE segs
ActionTailSegments(cs, segs, duration) ==
    IF cs # None /\ duration - cs >= MIN_ACTION_CLIP_DURATION
    THEN Append(segs, <<cs, duration>>)
    ELSE segs

\* ---- inputs of the scans taken alone ----
\* every list of at most k samples with strictly increasing timestamps >= tmin
RECURSIVE SamplesFrom(_, _)
SamplesFrom(tmin, k) ==
    IF k = 0 THEN {<<>>}
    ELSE {<<>>} \cup
         UNION {{<<<<t, v>>>> \o s : s \in SamplesFrom(t + 1, k - 1)} :
                t \in tmin .. MaxTime, v \in Scores}

ScanInputs == SamplesFrom(0, MaxLen) \cup {ScenarioA}
DurationsFor(samples) ==
    IF samples = ScenarioA THEN {ScenarioDuration} ELSE Durations

\* np.percentile(scores, q) lies between the least and the greatest score
ReachableThresholds(samples) ==
    {t * PercentScale : t \in
        {u \in Thresholds : /\ \E i \in 1 .. Len(samples) : samples[i][2] <= u
                            /\ \E i \in 1 .. Len(samples) : samples[i][2] >= u}}

\* ---- actions of the steady scan ----
\* lines 33-44: the loop reads one frame and scores it
SteadyLoopStep ==
    /\ pc = "steady_loop"
    /\ idx < Len(frames)
    /\ LET f == frames[idx + 1]
           b == SteadyBody(current_start, good_segments, f[1], f[2],
                           blur_threshold)
       IN /\ current_start' = b.cs
          /\ good_segments' = b.segs
    /\ idx' = idx + 1
    /\ UNCHANGED <<pc, inputVars, steady_clips, steady_duration, action_scores,
                   prev_frame, action_threshold, best_clips, open, closed,
                   historyVars>>

\* the `for` of line 33 ends when iter_frames has yielded every frame
FramesExhaustedEarly(i, fr) == i >= 1 \/ i = Len(fr)
FramesExhausted(i, fr) == i = Len(fr)

\* the frame iterator is exhausted: control reaches line 46
SteadyLoopEnd ==
    /\ pc = "steady_loop"
    /\ FramesExhausted(idx, frames)
    /\ pc' = "steady_ret"
    /\ UNCHANGED <<inputVars, scanVars, steady_clips, steady_duration,
                   action_scores, prev_frame, action_threshold, best_clips,
                   open, closed, historyVars>>

\* ---- actions of the action scan ----
\* lines 102-111
ActionLoopStep ==
    /\ pc = "action_loop"
    /\ idx < Len(action_scores)
    /\ LET s == action_scores[idx + 1]
           b == ActionBody(current_start, good_segments, s[1], s[2],
                           action_threshold)
       IN /\ current_start' = b.cs
          /\ good_segments' = b.segs
    /\ idx' = idx + 1
    /\ UNCHANGED <<pc, inputVars, steady_clips, steady_duration, action_scores,
                   prev_frame, action_threshold, best_clips, open, closed,
                   historyVars>>

\* lines 113-116, run once after the loop
ActionTail ==
    /\ pc = "action_loop"
    /\ idx = Len(action_scores)
    /\ good_segments' =
           ActionTailSegments(current_start, good_segments, steady_duration)
    /\ pc' = "action_ret"
    /\ UNCHANGED <<inputVars, idx, current_start, steady_clips, steady_duration,
                   action_scores, prev_frame, action_threshold, best_clips,
                   open, closed, historyVars>>

\* ---- the scans taken alone, on every input ----
InitScan ==
    /\ pc \in {"steady_loop", "action_loop"}
    /\ readable = TRUE
    /\ fps = TicksPerSecond
    /\ top_percent = DefaultTopPercent
    /\ top_percent2 = top_percent
    /\ main = MainIdle
    /\ idx = 0
    /\ current_start = None
    /\ good_segments = <<>>
    /\ steady_clips = <<>>
    /\ prev_frame = None
    /\ best_clips = <<>>
    /\ open = {}
    /\ closed = {}
    /\ write_calls = 0
    /\ written = <<>>
    /\ success = "unset"
    /\ result = "none"
    /\ abort = "none"
    /\ raised = "none"
    /\ IF pc = "steady_loop"
       THEN /\ frames \in ScanInputs
            /\ blur_threshold \in Thresholds
            /\ clip_duration \in DurationsFor(frames)
            /\ action_scores = <<>>
            /\ action_threshold = 0
            /\ steady_duration = 0
       ELSE /\ frames = <<>>
            /\ blur_threshold = DefaultBlurThreshold
            /\ clip_duration = 0
            /\ action_scores \in ScanInputs \ {<<>>}
            /\ action_threshold \in ReachableThresholds(action_scores)
            /\ steady_duration \in DurationsFor(action_scores)

NextScan ==
    \/ SteadyLoopStep
    \/ SteadyLoopEnd
    \/ ActionLoopStep
    \/ ActionTail

SpecScan == InitScan /\ [][NextScan]_vars


\* ---- the clips of a run ----
Orig == <<"orig", 0>>
SteadyVideo == <<"steady_video", 0>>
FinalVideo == <<"final", 0>>

\* `[original_clip.subclip(start, end) for start, end in good_segments]`
Subclips(kind, segs) ==
    [i \in 1 .. Len(segs) |->
        [id |-> <<kind, i>>, start |-> segs[i][1], end |-> segs[i][2]]]

ClipIds(clips) == {clips[i].id : i \in 1 .. Len(clips)}

\* ---- frames and timestamps ----
FrameRates == {0, 1, TicksPerSecond}

\* `if not fps or fps == 0`
FpsUndetermined(f) == f = 0

\* 1 / fps seconds, in ticks
FramePeriod(f) == TicksPerSecond \div f

\* number of frames iter_frames(fps=f) yields for a clip of the given duration:
\* one at each multiple of the frame period that is below the duration
NumFrames(duration, f) == (duration + FramePeriod(f) - 1) \div FramePeriod(f)

\* the frames of a source: frame i-1 at (i-1)/fps with any sharpness
ClipFrames(duration, f) ==
    IF FpsUndetermined(f) THEN {<<>>}
    ELSE {[i \in 1 .. NumFrames(duration, f) |->
              <<(i - 1) * FramePeriod(f), sh[i]>>] :
          sh \in [1 .. NumFrames(duration, f) -> Sharpness]}

\* ---- np.percentile(scores, q), linear interpolation, times PercentScale ----
\* position of s[i] in the sorted order (equal values keep their order)
Rank(s, i) ==
    Cardinality({j \in 1 .. Len(s) :
                    s[j] < s[i] \/ (s[j] = s[i] /\ j < i)}) + 1

Sorted(s) ==
    [k \in 1 .. Len(s) |-> s[CHOOSE i \in 1 .. Len(s) : Rank(s, i) = k]]

FixedThreshold(scores, q) == DefaultBlurThreshold * PercentScale
PercentileScaled(scores, q) ==
    LET n == Len(scores)
        srt == Sorted(scores)
        num == q * (n - 1)
        lo == num \div PercentScale
        rem == num % PercentScale
        hi == Min2(lo + 1, n - 1)
    IN PercentScale * srt[lo + 1] + rem * (srt[hi + 1] - srt[lo + 1])

\* `scores = [score for _, score in action_scores]`
ScoresOf(samples) == [i \in 1 .. Len(samples) |-> samples[i][2]]

\* `percentile_threshold = (100 - top_percent) / 100.0`, then `* 100` (line 95)
PercentileOfInverted(tp) == tp
PercentileOf(tp) == 100 - tp

\* ---- _get_best_moments as a function of its arguments ----
\* the loop of lines 102-111 from sample i on; st is (current_start, segments)
RECURSIVE ActionScanFrom(_, _, _, _)
ActionScanFrom(samples, i, st, threshold) ==
    IF i > Len(samples) THEN st
    ELSE ActionScanFrom(samples, i + 1,
                        ActionBody(st.cs, st.segs, samples[i][1],
                                   samples[i][2], threshold),
                        threshold)

\* lines 99-116 for a given action_threshold
BestMomentsOf(samples, threshold, duration) ==
    LET st == ActionScanFrom(samples, 1, [cs |-> None, segs |-> <<>>],
                             threshold)
    IN ActionTailSegments(st.cs, st.segs, duration)

\* the intervals _get_best_moments returns when generate_highlight_video is
\* given top_percent = tp (lines 159-160, 94-116)
BestMomentsFor(samples, tp, duration) ==
    BestMomentsOf(samples,
                  PercentileScaled(ScoresOf(samples), PercentileOf(tp)),
                  duration)

\* ---- branch conditions and results of generate_highlight_video ----
\* `if not steady_clips` (line 141)
NoSteadyClips(clips) == clips = <<>>

\* `if not action_scores` (line 153)
NoActionScores(scores) == scores = <<>>

\* `if best_clips` (line 163)
HasBestClipsAlways(clips) == TRUE
HasBestClips(clips) == clips # <<>>

\* `success = False` (line 175)
ElseSuccessTrue == "True"
ElseSuccess == "False"

\* `return [original_clip]` (line 25)
WholeClip(duration) == <<[id |-> Orig, start |-> 0, end |-> duration]>>

\* ---- actions of generate_highlight_video ----
\* lines 132-136
OpenSource ==
    /\ pc = "start"
    /\ IF readable
       THEN /\ open' = open \cup {Orig}
            /\ pc' = "get_steady"
            /\ UNCHANGED <<result, abort>>
       ELSE /\ result' = "False"
            /\ abort' = "open"
            /\ pc' = "returned"
            /\ UNCHANGED open
    /\ UNCHANGED <<inputVars, scanVars, steady_clips, steady_duration,
                   action_scores, prev_frame, action_threshold, best_clips,
                   closed, write_calls, written, success, raised>>

\* lines 22-31: _get_steady_clips up to its loop
GetSteadyStart ==
    /\ pc = "get_steady"
    /\ IF FpsUndetermined(fps)
       THEN /\ steady_clips' = WholeClip(clip_duration)
            /\ pc' = "check_steady"
            /\ UNCHANGED scanVars
       ELSE /\ good_segments' = <<>>
            /\ current_start' = None
            /\ idx' = 0
            /\ pc' = "steady_loop"
            /\ UNCHANGED steady_clips
    /\ UNCHANGED <<inputVars, steady_duration, action_scores, prev_frame,
                   action_threshold, best_clips, open, closed, historyVars>>

\* the clips _get_steady_clips closes before it returns its sub-clips: none,
\* the sub-clips read their frames from original_clip
SteadyReturnClosesSource == {Orig}
SteadyReturnCloses == {}

\* lines 46-50
SteadyReturn ==
    /\ pc = "steady_ret"
    /\ steady_clips' = Subclips("steady", good_segments)
    /\ open' = (open \cup ClipIds(steady_clips')) \ SteadyReturnCloses
    /\ closed' = closed \cup SteadyReturnCloses
    /\ pc' = "check_steady"
    /\ UNCHANGED <<inputVars, scanVars, steady_duration, action_scores,
                   prev_frame, action_threshold, best_clips, historyVars>>

\* lines 141-144
CheckSteady ==
    /\ pc = "check_steady"
    /\ IF NoSteadyClips(steady_clips)
       THEN /\ closed' = closed \cup {Orig}
            /\ open' = open \ {Orig}
            /\ result' = "False"
            /\ abort' = "no_steady"
            /\ pc' = "returned"
       ELSE /\ pc' = "concat_steady"
            /\ UNCHANGED <<open, closed, result, abort>>
    /\ UNCHANGED <<inputVars, scanVars, steady_clips, steady_duration,
                   action_scores, prev_frame, action_threshold, best_clips,
                   write_calls, written, success, raised>>

\* line 147
ConcatSteady ==
    /\ pc = "concat_steady"
    /\ open' = open \cup {SteadyVideo}
    /\ steady_duration' = SumDurations(steady_clips)
    /\ pc' = "analyze"
    /\ UNCHANGED <<inputVars, scanVars, steady_clips, action_scores, prev_frame,
                   action_threshold, best_clips, closed, historyVars>>

\* lines 56-71: _analyze_video_for_action up to its loop.  The concatenation
\* has the frame rate of its clips; iterating frames at an absent or zero rate
\* raises (1.0 / fps), and only StopIteration is caught.
AnalyzeStart ==
    /\ pc = "analyze"
    /\ IF FpsUndetermined(fps)
       THEN /\ raised' = "fps"
            /\ pc' = "raised"
            /\ UNCHANGED <<action_scores, prev_frame, idx>>
       ELSE IF NumFrames(steady_duration, fps) = 0
            THEN /\ action_scores' = <<>>
                 /\ pc' = "check_scores"
                 /\ UNCHANGED <<prev_frame, idx, raised>>
            ELSE /\ action_scores' = <<>>
                 /\ prev_frame' = 0
                 /\ idx' = 0
                 /\ pc' = "analyze_loop"
                 /\ UNCHANGED raised
    /\ UNCHANGED <<inputVars, current_start, good_segments, steady_clips,
                   steady_duration, action_threshold, best_clips, open, closed,
                   write_calls, written, success, result, abort>>

\* line 82: `timestamp = (i + 1) / fps`, i counting the frames after the first
SampleTimestamp(i, f) == (i + 1) * FramePeriod(f)

\* line 85: `prev_gray = gray`
PrevFrameKept(prev, cur) == prev
NextPrevFrame(prev, cur) == cur

\* lines 73-85: one frame transition is scored
AnalyzeLoopStep ==
    /\ pc = "analyze_loop"
    /\ idx < NumFrames(steady_duration, fps) - 1
    /\ \E m \in Magnitudes :
          action_scores' =
              Append(action_scores, <<SampleTimestamp(idx, fps), m>>)
    /\ prev_frame' = NextPrevFrame(prev_frame, idx + 1)
    /\ idx' = idx + 1
    /\ UNCHANGED <<pc, inputVars, current_start, good_segments, steady_clips,
                   steady_duration, action_threshold, best_clips, open, closed,
                   historyVars>>

\* line 87
AnalyzeLoopEnd ==
    /\ pc = "analyze_loop"
    /\ idx = NumFrames(steady_duration, fps) - 1
    /\ pc' = "check_scores"
    /\ UNCHANGED <<inputVars, scanVars, steady_clips, steady_duration,
                   action_scores, prev_frame, action_threshold, best_clips,
                   open, closed, historyVars>>

\* lines 153-157
CheckScores ==
    /\ pc = "check_scores"
    /\ IF NoActionScores(action_scores)
       THEN /\ closed' = closed \cup {SteadyVideo, Orig}
            /\ open' = open \ {SteadyVideo, Orig}
            /\ result' = "False"
            /\ abort' = "no_scores"
            /\ pc' = "returned"
       ELSE /\ pc' = "best_start"
            /\ UNCHANGED <<open, closed, result, abort>>
    /\ UNCHANGED <<inputVars, scanVars, steady_clips, steady_duration,
                   action_scores, prev_frame, action_threshold, best_clips,
                   write_calls, written, success, raised>>

\* lines 159-160 and 91-100: the threshold is derived, the scan starts
BestStart ==
    /\ pc = "best_start"
    /\ action_threshold' =
           PercentileScaled(ScoresOf(action_scores), PercentileOf(top_percent))
    /\ good_segments' = <<>>
    /\ current_start' = None
    /\ idx' = 0
    /\ pc' = "action_loop"
    /\ UNCHANGED <<inputVars, steady_clips, steady_duration, action_scores,
                   prev_frame, best_clips, open, closed, historyVars>>

\* lines 118-122
BestReturn ==
    /\ pc = "action_ret"
    /\ best_clips' = Subclips("best", good_segments)
    /\ open' = open \cup ClipIds(best_clips')
    /\ pc' = "check_best"
    /\ UNCHANGED <<inputVars, scanVars, steady_clips, steady_duration,
                   action_scores, prev_frame, action_threshold, closed,
                   historyVars>>

\* lines 163-164 and 173-175
CheckBest ==
    /\ pc = "check_best"
    /\ IF HasBestClips(best_clips)
       THEN /\ pc' = "concat_best"
            /\ UNCHANGED <<success, abort>>
       ELSE /\ success' = ElseSuccess
            /\ abort' = "no_best"
            /\ pc' = "release"
    /\ UNCHANGED <<inputVars, scanVars, steady_clips, steady_duration,
                   action_scores, prev_frame, action_threshold, best_clips,
                   open, closed, write_calls, written, result, raised>>

\* line 165
ConcatBest ==
    /\ pc = "concat_best"
    /\ open' = open \cup {FinalVideo}
    /\ pc' = "write"
    /\ UNCHANGED <<inputVars, scanVars, steady_clips, steady_duration,
                   action_scores, prev_frame, action_threshold, best_clips,
                   closed, historyVars>>

\* line 166: final_video.write_videofile(...) runs to completion
WriteFinal ==
    /\ pc = "write"
    /\ write_calls' = write_calls + 1
    /\ written' = Append(written, best_clips)
    /\ pc' = "close_final"
    /\ UNCHANGED <<inputVars, scanVars, steady_clips, steady_duration,
                   action_scores, prev_frame, action_threshold, best_clips,
                   open, closed, success, result, abort, raised>>

\* lines 169-172
CloseFinal ==
    /\ pc = "close_final"
    /\ closed' = closed \cup {FinalVideo} \cup ClipIds(best_clips)
    /\ open' = open \ ({FinalVideo} \cup ClipIds(best_clips))
    /\ success' = "True"
    /\ pc' = "release"
    /\ UNCHANGED <<inputVars, scanVars, steady_clips, steady_duration,
                   action_scores, prev_frame, action_threshold, best_clips,
                   write_calls, written, result, abort, raised>>

\* lines 178-183
Release ==
    /\ pc = "release"
    /\ closed' = closed \cup {SteadyVideo, Orig} \cup ClipIds(steady_clips)
    /\ open' = open \ ({SteadyVideo, Orig} \cup ClipIds(steady_clips))
    /\ result' = success
    /\ pc' = "returned"
    /\ UNCHANGED <<inputVars, scanVars, steady_clips, steady_duration,
                   action_scores, prev_frame, action_threshold, best_clips,
                   write_calls, written, success, abort, raised>>

\* ---- _get_best_moments taken alone, on the scores of an analysed clip ----
\* the list _analyze_video_for_action builds at 1 frame per second: sample i
\* at i / fps, with any magnitude
AnalysedScores ==
    UNION {{[i \in 1 .. n |-> <<i * FramePeriod(1), m[i]>>] :
               m \in [1 .. n -> Magnitudes]} : n \in 1 .. MaxScores}

\* Scenario C: the 100 scores 0 .. 99
ScenarioC == [i \in 1 .. 100 |-> <<i * FramePeriod(1), i - 1>>]

ComparedPercents == {DefaultTopPercent, 80, 90}

InitBest ==
    /\ pc = "best_start"
    /\ readable = TRUE
    /\ fps = 1
    /\ clip_duration = 0
    /\ frames = <<>>
    /\ blur_threshold = DefaultBlurThreshold
    /\ action_scores \in AnalysedScores \cup {ScenarioC}
    /\ steady_duration = (Len(action_scores) + 1) * FramePeriod(1)
    /\ top_percent \in IF action_scores = ScenarioC
                        THEN {DefaultTopPercent} ELSE ComparedPercents
    /\ top_percent2 \in IF action_scores = ScenarioC THEN {top_percent}
                         ELSE {p \in ComparedPercents : p >= top_percent}
    /\ main = MainIdle
    /\ idx = 0
    /\ current_start = None
    /\ good_segments = <<>>
    /\ steady_clips = <<>>
    /\ prev_frame = None
    /\ action_threshold = 0
    /\ best_clips = <<>>
    /\ open = {}
    /\ closed = {}
    /\ write_calls = 0
    /\ written = <<>>
    /\ success = "unset"
    /\ result = "none"
    /\ abort = "none"
    /\ raised = "none"

NextBest ==
    \/ BestStart
    \/ ActionLoopStep
    \/ ActionTail

SpecBest == InitBest /\ [][NextBest]_vars

\* the statements at which an external collaborator runs: frame decoding and
\* OpenCV in the two frame loops, concatenate_videoclips, write_videofile
FaultPoints ==
    {"steady_loop", "concat_steady", "analyze", "analyze_loop", "concat_best",
     "write"}

\* lines 139-183 are inside no try statement: an exception raised by a
\* collaborator leaves generate_highlight_video at once
ExternalFault ==
    /\ pc \in FaultPoints
    /\ raised' = "external"
    /\ write_calls' = IF pc = "write" THEN write_calls + 1 ELSE write_calls
    /\ pc' = "raised"
    /\ UNCHANGED <<inputVars, scanVars, steady_clips, steady_duration,
                   action_scores, prev_frame, action_threshold, best_clips,
                   open, closed, written, success, result, abort>>

\* ---- the pipeline on every source ----
Init ==
    /\ pc = "start"
    /\ readable \in BOOLEAN
    /\ fps \in FrameRates
    /\ clip_duration \in 1 .. MaxClipTicks
    /\ frames \in ClipFrames(clip_duration, fps)
    /\ blur_threshold = DefaultBlurThreshold
    /\ top_percent \in TopPercents
    /\ top_percent2 = top_percent
    /\ main = MainIdle
    /\ idx = 0
    /\ current_start = None
    /\ good_segments = <<>>
    /\ steady_clips = <<>>
    /\ steady_duration = 0
    /\ action_scores = <<>>
    /\ prev_frame = None
    /\ action_threshold = 0
    /\ best_clips = <<>>
    /\ open = {}
    /\ closed = {}
    /\ write_calls = 0
    /\ written = <<>>
    /\ success = "unset"
    /\ result = "none"
    /\ abort = "none"
    /\ raised = "none"

Next ==
    \/ OpenSource
    \/ GetSteadyStart
    \/ SteadyLoopStep
    \/ SteadyLoopEnd
    \/ SteadyReturn
    \/ CheckSteady
    \/ ConcatSteady
    \/ AnalyzeStart
    \/ AnalyzeLoopStep
    \/ AnalyzeLoopEnd
    \/ CheckScores
    \/ BestStart
    \/ ActionLoopStep
    \/ ActionTail
    \/ BestReturn
    \/ CheckBest
    \/ ConcatBest
    \/ WriteFinal
    \/ CloseFinal
    \/ Release
    \/ ExternalFault

Spec == Init /\ [][Next]_vars


\* ======================= properties of the run scans =======================
InSteadyScan == pc \in {"steady_loop", "steady_ret"}
InActionScan == pc \in {"action_loop", "action_ret"}

\* C1: every interval the run scan has collected is at least as long as the
\* stage's minimum duration (1.0 s steady, 2.0 s action), the interval closed
\* against the source's duration included, and so has start < end.
C1_MinDuration ==
    /\ InSteadyScan =>
          \A i \in 1 .. Len(good_segments) :
             /\ good_segments[i][2] - good_segments[i][1]
                   >= MIN_CLIP_DURATION_STEADY
             /\ good_segments[i][1] < good_segments[i][2]
    /\ InActionScan =>
          \A i \in 1 .. Len(good_segments) :
             /\ good_segments[i][2] - good_segments[i][1]
                   >= MIN_ACTION_CLIP_DURATION
             /\ good_segments[i][1] < good_segments[i][2]

\* the action scan kept a trailing run of exactly the minimum duration, after
\* an earlier interval
C1_Witness ==
    /\ pc = "action_ret"
    /\ current_start # None
    /\ Len(good_segments) = 2
    /\ Last(good_segments) = <<current_start, steady_duration>>
    /\ steady_duration - current_start = MIN_ACTION_CLIP_DURATION

\* C2: the intervals of a scan are ordered by start time and adjacent intervals
\* do not overlap (end of one <= start of the next), the last pair included
\* when the final interval was closed against the source's duration.
C2_NoOverlap ==
    (InSteadyScan \/ InActionScan) =>
       \A i \in 1 .. Len(good_segments) - 1 :
          /\ good_segments[i][2] <= good_segments[i + 1][1]
          /\ good_segments[i][1] < good_segments[i + 1][1]

\* two intervals, the second one closed against the duration of the source
C2_Witness ==
    /\ pc = "action_ret"
    /\ current_start # None
    /\ Len(good_segments) = 2
    /\ good_segments[2] = <<current_start, steady_duration>>

\* C3: a sample whose score equals the threshold never opens a run, and closes
\* the open run at its own timestamp instead of extending it, in both scans.
C3_StrictThreshold ==
    [][/\ (/\ pc = "steady_loop"
           /\ idx < Len(frames)
           /\ frames[idx + 1][2] = blur_threshold)
          => /\ current_start' = None
             /\ \/ good_segments' = good_segments
                \/ /\ current_start # None
                   /\ good_segments' =
                         Append(good_segments,
                                <<current_start, frames[idx + 1][1]>>)
       /\ (/\ pc = "action_loop"
           /\ idx < Len(action_scores)
           /\ action_scores[idx + 1][2] * PercentScale = action_threshold)
          => /\ current_start' = None
             /\ \/ good_segments' = good_segments
                \/ /\ current_start # None
                   /\ good_segments' =
                         Append(good_segments,
                                <<current_start, action_scores[idx + 1][1]>>)
      ]_vars

\* a sample equal to the threshold has just closed a run at its timestamp, in
\* the steady scan
C3_Witness ==
    /\ pc = "steady_loop"
    /\ idx >= 2
    /\ frames[idx][2] = blur_threshold
    /\ frames[idx - 1][2] > blur_threshold
    /\ current_start = None
    /\ good_segments # <<>>
    /\ Last(good_segments)[2] = frames[idx][1]

\* C4: in both stages a run still open after the last sample is closed as
\* (run start, total duration of the source) and kept if and only if
\* total duration - run start >= the stage's minimum duration.
C4_TrailingRunClosed ==
    /\ (pc = "steady_ret" /\ current_start # None) =>
          ((clip_duration - current_start >= MIN_CLIP_DURATION_STEADY)
             <=> (/\ good_segments # <<>>
                  /\ Last(good_segments) = <<current_start, clip_duration>>))
    /\ (pc = "action_ret" /\ current_start # None) =>
          ((steady_duration - current_start >= MIN_ACTION_CLIP_DURATION)
             <=> (/\ good_segments # <<>>
                  /\ Last(good_segments) = <<current_start, steady_duration>>))

\* ---- the reference result of a scan, stated on the whole sample list ----
\* sample i is above the threshold
SteadyAbove(i) == frames[i][2] > blur_threshold
ActionAbove(i) == action_scores[i][2] * PercentScale > action_threshold

\* the maximal runs that a later sample closes: (first sample of the run,
\* first sample after it that is not above the threshold), long enough
SteadyClosedRuns ==
    {<<frames[p[1]][1], frames[p[2]][1]>> :
        p \in {q \in (1 .. Len(frames)) \X (1 .. Len(frames)) :
                 /\ q[1] < q[2]
                 /\ q[1] = 1 \/ ~SteadyAbove(q[1] - 1)
                 /\ \A k \in q[1] .. q[2] - 1 : SteadyAbove(k)
                 /\ ~SteadyAbove(q[2])
                 /\ frames[q[2]][1] - frames[q[1]][1]
                       >= MIN_CLIP_DURATION_STEADY}}

ActionClosedRuns ==
    {<<action_scores[p[1]][1], action_scores[p[2]][1]>> :
        p \in {q \in (1 .. Len(action_scores)) \X (1 .. Len(action_scores)) :
                 /\ q[1] < q[2]
                 /\ q[1] = 1 \/ ~ActionAbove(q[1] - 1)
                 /\ \A k \in q[1] .. q[2] - 1 : ActionAbove(k)
                 /\ ~ActionAbove(q[2])
                 /\ action_scores[q[2]][1] - action_scores[q[1]][1]
                       >= MIN_ACTION_CLIP_DURATION}}

\* the run that reaches the last sample, closed against the duration
ActionTrailingRun ==
    {<<action_scores[i][1], steady_duration>> :
        i \in {k \in 1 .. Len(action_scores) :
                 /\ k = 1 \/ ~ActionAbove(k - 1)
                 /\ \A m \in k .. Len(action_scores) : ActionAbove(m)
                 /\ steady_duration - action_scores[k][1]
                       >= MIN_ACTION_CLIP_DURATION}}

\* the list holds exactly the intervals of the set, each once
ExactlyTheIntervals(segs, intervals) ==
    /\ Range(segs) = intervals
    /\ Len(segs) = Cardinality(intervals)

ScenarioAResult ==
    (/\ pc = "action_ret"
     /\ action_scores = ScenarioA
     /\ action_threshold = DefaultBlurThreshold * PercentScale)
       => good_segments = << <<1 * TicksPerSecond, 4 * TicksPerSecond>>,
                             <<6 * TicksPerSecond, 9 * TicksPerSecond>> >>

\* C5 as stated: a finished scan returns exactly one interval per maximal run
\* closed by a later not-above-threshold sample that meets the minimum
\* duration, and nothing else; Scenario A yields (1,4) and (6,9).
C5_ClosedRunsOnly ==
    /\ pc = "steady_ret" => ExactlyTheIntervals(good_segments, SteadyClosedRuns)
    /\ pc = "action_ret" => ExactlyTheIntervals(good_segments, ActionClosedRuns)
    /\ ScenarioAResult

\* C5 amended: as stated, and in addition the action scan returns
\* (run start, total duration) for a run still open after the last sample when
\* total duration - run start >= the minimum duration.
C5_ReferenceResult ==
    /\ pc = "steady_ret" => ExactlyTheIntervals(good_segments, SteadyClosedRuns)
    /\ pc = "action_ret" =>
          ExactlyTheIntervals(good_segments,
                              ActionClosedRuns \cup ActionTrailingRun)
    /\ ScenarioAResult

\* Scenario A has been scanned to the end
C5_Witness ==
    /\ pc = "action_ret"
    /\ action_scores = ScenarioA
    /\ action_threshold = DefaultBlurThreshold * PercentScale
    /\ Len(good_segments) = 2

\* C6: every sample whose timestamp lies in [start, end) of a collected
\* interval is strictly above the threshold, and when no sample is above the
\* threshold the list of intervals is empty.
C6_OnlyActiveCovered ==
    /\ InSteadyScan =>
          /\ \A s \in Range(good_segments) : \A i \in 1 .. Len(frames) :
                (s[1] <= frames[i][1] /\ frames[i][1] < s[2])
                   => frames[i][2] > blur_threshold
          /\ (\A i \in 1 .. Len(frames) : frames[i][2] <= blur_threshold)
                => good_segments = <<>>
    /\ InActionScan =>
          /\ \A s \in Range(good_segments) : \A i \in 1 .. Len(action_scores) :
                (s[1] <= action_scores[i][1] /\ action_scores[i][1] < s[2])
                   => action_scores[i][2] * PercentScale > action_threshold
          /\ (\A i \in 1 .. Len(action_scores) :
                 action_scores[i][2] * PercentScale <= action_threshold)
                => good_segments = <<>>

\* an interval covering several samples was returned from a list that also
\* holds a sample equal to the threshold
C6_Witness ==
    /\ pc = "action_ret"
    /\ good_segments # <<>>
    /\ \E i \in 1 .. Len(action_scores) :
          action_scores[i][2] * PercentScale = action_threshold
    /\ \E i \in 1 .. Len(action_scores) - 1 :
          /\ good_segments[1][1] <= action_scores[i][1]
          /\ action_scores[i + 1][1] < good_segments[1][2]

\* =================== properties of generate_highlight_video ===================
\* C7: with the frame rate absent or zero the stability stage scores no frame
\* and returns the whole clip as its one element, the run does not abort at
\* the stability stage, and the run ends with a returned True or False: the
\* undetermined frame rate makes no exception leave the function.
C7_UndeterminedFpsReturns ==
    (readable /\ fps = 0) =>
       /\ pc \notin {"start", "get_steady"} =>
             /\ steady_clips = <<[id |-> Orig, start |-> 0,
                                  end |-> clip_duration]>>
             /\ idx = 0
             /\ abort # "no_steady"
       /\ raised # "fps"

\* the cases in which the run is over without a final video to write
AbortCase ==
    \/ ~readable
    \/ steady_clips = <<>>
    \/ action_scores = <<>>
    \/ best_clips = <<>>

\* C8: in every abort case (source not opened, no steady interval, no action
\* score, no action interval) the function returns False and write_videofile
\* was never called in the run.
C8_AbortWritesNothing ==
    /\ (pc = "returned" /\ AbortCase) =>
          /\ result = "False"
          /\ write_calls = 0
          /\ written = <<>>
    /\ abort # "none" => write_calls = 0

\* the run aborted after action segmentation gave no interval
C8_Witness ==
    /\ pc = "returned"
    /\ abort = "no_best"
    /\ steady_clips # <<>>
    /\ action_scores # <<>>
    /\ best_clips = <<>>

\* C9: True is returned only when there is at least one steady interval, at
\* least one action interval, and the one write, of the concatenation of those
\* action intervals, has run to completion.
C9_TrueOnlyAfterWrite ==
    result = "True" =>
       /\ steady_clips # <<>>
       /\ best_clips # <<>>
       /\ write_calls = 1
       /\ written = <<best_clips>>

C9_Witness ==
    /\ pc = "returned"
    /\ result = "True"

\* C10: whenever the function returns after the source was opened, every clip
\* created in the run (original, steady sub-clips, steady concatenation,
\* action sub-clips, final concatenation) has been closed.
C10_AllClosedAtReturn ==
    (pc = "returned" /\ readable) => open = {}


\* C11: when a fault is raised inside generate_highlight_video after the source
\* was opened, every clip, sub-clip and concatenation created so far is closed
\* before control leaves the function.
C11_AllClosedAfterFault ==
    (pc = "raised" /\ readable) => open = {}

\* C12: generate_highlight_video always ends by returning True or False: no
\* exception leaves it, a fault while opening the source included, which is
\* returned as False.
C12_NoExceptionEscapes ==
    /\ (pc = "returned" /\ ~readable) => result = "False"
    /\ pc = "returned" => result \in {"True", "False"}
    /\ raised = "none"


\* =================== properties of the percentile threshold ===================
RECURSIVE TotalDuration(_)
TotalDuration(segs) ==
    IF segs = <<>> THEN 0
    ELSE (Last(segs)[2] - Last(segs)[1])
         + TotalDuration(SubSeq(segs, 1, Len(segs) - 1))

\* the intervals the same scores and duration give under top_percent2
OtherMoments == BestMomentsFor(action_scores, top_percent2, steady_duration)

\* C13 as stated: for the same scores and duration and top_percent <
\* top_percent2 (equal values are the same call), neither the number of
\* action intervals nor their total duration is smaller under top_percent2.
C13_CountAndDurationMonotone ==
    (pc = "action_ret" /\ top_percent < top_percent2) =>
       /\ Len(OtherMoments) >= Len(good_segments)
       /\ TotalDuration(OtherMoments) >= TotalDuration(good_segments)

\* C13 amended: the total duration of the action intervals is not smaller
\* under the larger top_percent (their number may be: a lower threshold can
\* merge two runs into one).
C13_DurationMonotone ==
    (pc = "action_ret" /\ top_percent < top_percent2) =>
       TotalDuration(OtherMoments) >= TotalDuration(good_segments)

\* a larger top_percent gave strictly more total duration than a smaller one
\* that gave some
C13_Witness ==
    /\ pc = "action_ret"
    /\ top_percent < top_percent2
    /\ TotalDuration(good_segments) > 0
    /\ TotalDuration(OtherMoments) > TotalDuration(good_segments)

ThresholdSet == pc \in {"action_loop", "action_ret"}
ActiveCount ==
    Cardinality({i \in 1 .. Len(action_scores) :
                    action_scores[i][2] * PercentScale > action_threshold})
BelowCount ==
    Cardinality({i \in 1 .. Len(action_scores) :
                    action_scores[i][2] * PercentScale < action_threshold})

\* the threshold lies at rank (100 - top_percent) percent of the n - 1 steps
\* of the sorted scores: at most floor(rank) + 1 scores are below it and at
\* most n - 1 - floor(rank) are above it
ThresholdAtPercentile ==
    LET n == Len(action_scores)
        rank100 == (100 - top_percent) * (n - 1)
    IN /\ 100 * (BelowCount - 1) <= rank100
       /\ rank100 < 100 * (n - ActiveCount)

\* C14 as stated: the threshold is the (100 - top_percent)th percentile of all
\* the scores; for top_percent 20 and the scores 0..99 it is about 80 and only
\* scores > 80 are active; the active samples are never more than top_percent
\* percent of the samples.
C14_PercentileThreshold ==
    ThresholdSet =>
       /\ ThresholdAtPercentile
       /\ (action_scores = ScenarioC /\ top_percent = 20) =>
             /\ 79 * PercentScale <= action_threshold
             /\ action_threshold <= 81 * PercentScale
             /\ \A i \in 1 .. Len(action_scores) :
                   action_scores[i][2] * PercentScale > action_threshold
                      => action_scores[i][2] > 80
       /\ 100 * ActiveCount <= top_percent * Len(action_scores)

\* C14 amended: the threshold is that percentile; for top_percent 20 and the
\* scores 0..99 it is 79.2 and exactly the 20 scores >= 80 are active; the
\* number of active samples is below top_percent percent of the samples plus
\* one.
C14_PercentileThresholdAmended ==
    ThresholdSet =>
       /\ ThresholdAtPercentile
       /\ (action_scores = ScenarioC /\ top_percent = 20) =>
             /\ 10 * action_threshold = 792 * PercentScale
             /\ \A i \in 1 .. Len(action_scores) :
                   action_scores[i][2] * PercentScale > action_threshold
                      <=> action_scores[i][2] >= 80
             /\ ActiveCount = 20
       /\ 100 * ActiveCount < top_percent * Len(action_scores) + 100

\* Scenario C has been scanned with top_percent 20
C14_Witness ==
    /\ pc = "action_ret"
    /\ action_scores = ScenarioC
    /\ top_percent = 20
    /\ good_segments # <<>>


\* =================== the two run scans compared ===================
\* where the run starting at frame i ends: at the first later frame that is
\* not above the threshold, or at the duration of the clip
SteadyRunEnd(i) ==
    LET later == {j \in i + 1 .. Len(frames) : ~SteadyAbove(j)}
    IN IF later = {} THEN clip_duration
       ELSE frames[CHOOSE j \in later : \A k \in later : j <= k][1]

\* no run has a length that the two stages' minimum durations judge
\* differently
MinimumsAgree ==
    \A i \in 1 .. Len(frames) :
       (SteadyAbove(i) /\ (i = 1 \/ ~SteadyAbove(i - 1))) =>
          LET length == SteadyRunEnd(i) - frames[i][1]
          IN \/ length < MIN_CLIP_DURATION_STEADY
             \/ length >= MIN_ACTION_CLIP_DURATION

\* C15: on the same samples, threshold and source duration, and where the
\* minimum durations agree, the scan of _get_steady_clips returns the same
\* intervals as the scan of _get_best_moments.
C15_SameRoutine ==
    (pc = "steady_ret" /\ MinimumsAgree) =>
       good_segments = BestMomentsOf(frames, blur_threshold * PercentScale,
                                     clip_duration)


\* =================== the samples of the action analysis ===================
\* generate_highlight_video has returned after its action analysis
ReturnedAfterAnalysis ==
    pc = "returned" /\ abort \in {"none", "no_scores", "no_best"}

\* C16: a steady clip of n frames gives exactly max(n - 1, 0) samples; the
\* i-th sample has timestamp i / fps and is computed from frame i - 1 (the
\* previous-frame state, replaced after each sample) and frame i, so the
\* timestamps strictly increase; with fewer than 2 frames there is no sample
\* and generate_highlight_video returns False.
C16_OneSamplePerLaterFrame ==
    LET n == NumFrames(steady_duration, fps)
    IN /\ pc = "analyze_loop" =>
             /\ Len(action_scores) = idx
             /\ prev_frame = idx
             /\ idx <= n - 1
       /\ pc \in {"analyze_loop", "check_scores"} =>
             /\ \A i \in 1 .. Len(action_scores) :
                   action_scores[i][1] * fps = i * TicksPerSecond
             /\ \A i \in 1 .. Len(action_scores) - 1 :
                   action_scores[i][1] < action_scores[i + 1][1]
       /\ pc = "check_scores" =>
             Len(action_scores) = (IF n >= 1 THEN n - 1 ELSE 0)
       /\ (ReturnedAfterAnalysis /\ n < 2) =>
             /\ action_scores = <<>>
             /\ result = "False"
       /\ (pc \in {"best_start", "action_loop", "action_ret", "check_best",
                   "concat_best", "write", "close_final"}) => n >= 2

\* an analysis of at least three frames has returned
C16_Witness ==
    /\ pc = "check_scores"
    /\ Len(action_scores) >= 2
    /\ NumFrames(steady_duration, fps) = Len(action_scores) + 1


\* =================== the order of the steps ===================
\* the position of each statement in the order open source, stability scan,
\* concatenate steady, action scan, action segmentation, concatenate best,
\* write, release
StepRank(p) ==
    CASE p = "start" -> 0
      [] p = "get_steady" -> 1
      [] p = "steady_loop" -> 2
      [] p = "steady_ret" -> 3
      [] p = "check_steady" -> 4
      [] p = "concat_steady" -> 5
      [] p = "analyze" -> 6
      [] p = "analyze_loop" -> 7
      [] p = "check_scores" -> 8
      [] p = "best_start" -> 9
      [] p = "action_loop" -> 10
      [] p = "action_ret" -> 11
      [] p = "check_best" -> 12
      [] p = "concat_best" -> 13
      [] p = "write" -> 14
      [] p = "close_final" -> 15
      [] p = "release" -> 16
      [] OTHER -> 17

FrameLoops == {"steady_loop", "analyze_loop", "action_loop"}

\* C17: the steps of a run occur only in the order open source, stability
\* scan, concatenate steady, action scan, action segmentation, concatenate
\* best, write, none repeated or revisited; the action scan reads its first
\* frame only after the stability scan has consumed its last frame and the
\* steady intervals are fixed; the write starts only after the action
\* segmentation has returned.
C17_StrictOrder ==
    [][/\ \/ StepRank(pc') > StepRank(pc)
          \/ pc' = pc /\ pc \in FrameLoops /\ idx' = idx + 1
       /\ pc' = "steady_ret" => (pc = "steady_loop" /\ idx = Len(frames))
       /\ pc' = "concat_steady" => pc = "check_steady"
       /\ pc' = "analyze" => pc = "concat_steady"
       /\ StepRank(pc) >= StepRank("check_steady") =>
             steady_clips' = steady_clips
       /\ prev_frame' # prev_frame =>
             /\ pc \in {"analyze", "analyze_loop"}
             /\ steady_duration = SumDurations(steady_clips)
       /\ pc' = "best_start" => pc = "check_scores"
       /\ StepRank(pc) >= StepRank("check_scores") =>
             action_scores' = action_scores
       /\ pc' = "concat_best" => pc = "check_best"
       /\ pc' = "write" => pc = "concat_best"
       /\ StepRank(pc) >= StepRank("check_best") => best_clips' = best_clips
       /\ write_calls' # write_calls =>
             /\ pc = "write"
             /\ best_clips = Subclips("best", good_segments)
      ]_vars

\* a run went through every step up to the write
C17_Witness ==
    /\ pc = "close_final"
    /\ write_calls = 1
    /\ Len(steady_clips) >= 1
    /\ Len(action_scores) >= 2


\* =================== clips are read only while open ===================
\* the clips a statement reads, with everything they draw their frames from
ClipsRead ==
    CASE pc = "steady_loop" -> {Orig}
      [] pc \in {"check_steady", "concat_steady"} ->
            {Orig} \cup ClipIds(steady_clips)
      [] pc \in {"analyze", "analyze_loop", "check_scores", "best_start",
                 "action_loop", "action_ret", "check_best"} ->
            {Orig, SteadyVideo} \cup ClipIds(steady_clips)
      [] pc = "concat_best" ->
            {Orig, SteadyVideo} \cup ClipIds(steady_clips)
               \cup ClipIds(best_clips)
      [] pc \in {"write", "close_final"} ->
            {Orig, SteadyVideo, FinalVideo} \cup ClipIds(steady_clips)
               \cup ClipIds(best_clips)
      [] OTHER -> {}

\* C20: no clip is read after it or its backing source has been closed: the
\* original stays open while the steady sub-clips and their concatenation are
\* scanned, and the original, the steady sub-clips and the steady
\* concatenation stay open until the final video has been written.
C20_NoReadAfterClose ==
    /\ ClipsRead \subseteq open
    /\ ClipsRead \cap closed = {}

\* the final video has just been written from the action sub-clips
C20_Witness ==
    /\ pc = "close_final"
    /\ write_calls = 1
    /\ best_clips # <<>>
    /\ closed = {}


\* =================== main.py: process_video_from_gcs ===================
\* `MAX_FILE_SIZE_BYTES = int(os.environ.get(..., 1 * 1024 * 1024 * 1024))`
MAX_FILE_SIZE_BYTES == 1 * 1024 * 1024 * 1024

\* `file_size = int(file_data.get('size', 0))`
FileSizes ==
    {0, MAX_FILE_SIZE_BYTES - 1, MAX_FILE_SIZE_BYTES, MAX_FILE_SIZE_BYTES + 1}

\* temp_input_path, temp_output_path, temp_steady_output_path
TempPaths == {"input", "output", "steady"}

\* the keywords of the call of lines 61-67
CallKeywords ==
    {"input_path", "output_path", "steady_output_path", "blur_threshold",
     "top_percent"}

\* the parameters of generate_highlight_video (video_processor.py line 126)
SignatureParams ==
    {"input_path", "output_path", "blur_threshold", "top_percent"}

\* a call with a keyword the function does not have raises TypeError before
\* the body runs
CallBinds == CallKeywords \subseteq SignatureParams

\* what the call of lines 61-67 can give: the return value of the pipeline,
\* an exception leaving it, or the TypeError of the call itself
PipelineOutcomes ==
    IF CallBinds THEN {"True", "False", "fault"} ELSE {"TypeError"}

\* blob.download_to_filename: succeeds, or raises with or without leaving
\* the (partial) file behind
DownloadOutcomes == {"ok", "fail_left", "fail_none"}

\* line 94: `except Exception` catches every exception of the try block
HandlerCatches(exc) ==
    exc \in {"download", "TypeError", "fault", "upload"}

\* line 101: the paths the cleanup loop goes through
CleanupPathsNoInput == {"output", "steady"}
CleanupPaths == {"input", "output", "steady"}

\* the exception raised inside the try block, if any
TryException(download, outcome, uploads_done) ==
    IF download # "ok" THEN "download"
    ELSE IF outcome \in {"TypeError", "fault"} THEN outcome
    ELSE IF outcome = "True" /\ ~uploads_done THEN "upload"
    ELSE "none"

\* lines 35-38
MainSizeCheck ==
    /\ main.pc = "entry"
    /\ main' = [main EXCEPT !.pc = IF main.file_size > MAX_FILE_SIZE_BYTES
                                   THEN "returned" ELSE "try"]
    /\ UNCHANGED <<pc, readable, fps, clip_duration, frames, blur_threshold,
                   top_percent, top_percent2, scanVars, steady_clips,
                   steady_duration, action_scores, prev_frame, action_threshold,
                   best_clips, open, closed, historyVars>>

\* lines 49-95: the try block with its handler
MainTry ==
    /\ main.pc = "try"
    /\ \E outcome \in (IF main.download = "ok"
                       THEN PipelineOutcomes ELSE {"none"}) :
          LET after_download ==
                  main.exists \cup (IF main.download \in {"ok", "fail_left"}
                                    THEN {"input"} ELSE {})
              after_call ==
                  after_download \cup (IF outcome = "True"
                                       THEN {"output"} ELSE {})
              uploading == outcome = "True" /\ main.bucket_set
              uploads ==
                  IF uploading /\ main.upload_ok
                  THEN {"highlight"} \cup (IF "steady" \in after_call
                                           THEN {"steady"} ELSE {})
                  ELSE {}
              exc == TryException(main.download, outcome,
                                  ~uploading \/ main.upload_ok)
          IN main' = [main EXCEPT !.pc = "finally",
                                  !.downloaded = TRUE,
                                  !.exists = after_call,
                                  !.outcome = outcome,
                                  !.uploads = uploads,
                                  !.exc = exc,
                                  !.escaped = exc # "none"
                                                 /\ ~HandlerCatches(exc)]
    /\ UNCHANGED <<pc, readable, fps, clip_duration, frames, blur_threshold,
                   top_percent, top_percent2, scanVars, steady_clips,
                   steady_duration, action_scores, prev_frame, action_threshold,
                   best_clips, open, closed, historyVars>>

\* lines 97-108: os.remove on each path that exists; OSError is caught
MainFinally ==
    /\ main.pc = "finally"
    /\ LET attempted == CleanupPaths \cap main.exists
       IN main' = [main EXCEPT !.pc = "returned",
                               !.cleanup = TRUE,
                               !.at_cleanup = main.exists,
                               !.attempted = attempted,
                               !.exists = main.exists
                                             \ (attempted \ main.remove_fails)]
    /\ UNCHANGED <<pc, readable, fps, clip_duration, frames, blur_threshold,
                   top_percent, top_percent2, scanVars, steady_clips,
                   steady_duration, action_scores, prev_frame, action_threshold,
                   best_clips, open, closed, historyVars>>

InitMain ==
    /\ main \in [pc : {"entry"},
                 file_size : FileSizes,
                 download : DownloadOutcomes,
                 bucket_set : BOOLEAN,
                 upload_ok : BOOLEAN,
                 remove_fails : SUBSET TempPaths,
                 exists : SUBSET TempPaths,
                 downloaded : {FALSE},
                 outcome : {"none"},
                 uploads : {{}},
                 exc : {"none"},
                 escaped : {FALSE},
                 cleanup : {FALSE},
                 at_cleanup : {{}},
                 attempted : {{}}]
    /\ pc = "not_called"
    /\ readable = TRUE
    /\ fps = 0
    /\ clip_duration = 0
    /\ frames = <<>>
    /\ blur_threshold = DefaultBlurThreshold
    /\ top_percent = DefaultTopPercent
    /\ top_percent2 = top_percent
    /\ idx = 0
    /\ current_start = None
    /\ good_segments = <<>>
    /\ steady_clips = <<>>
    /\ steady_duration = 0
    /\ action_scores = <<>>
    /\ prev_frame = None
    /\ action_threshold = 0
    /\ best_clips = <<>>
    /\ open = {}
    /\ closed = {}
    /\ write_calls = 0
    /\ written = <<>>
    /\ success = "unset"
    /\ result = "none"
    /\ abort = "none"
    /\ raised = "none"

NextMain ==
    \/ MainSizeCheck
    \/ MainTry
    \/ MainFinally

SpecMain == InitMain /\ [][NextMain]_vars

\* the try block of process_video_from_gcs has been left
MainTried == main.pc \in {"finally", "returned"} /\ main.downloaded

\* C18: for a file within the size limit, generate_highlight_video is called
\* with the input, output and steady-output paths and runs; if it reports
\* success and RESULTS_BUCKET_NAME is set the result is uploaded as
\* highlight_<basename> (and steady_<basename> when that file exists); nothing
\* is uploaded unless the pipeline returned success.
C18_CallsPipelineThenUploads ==
    MainTried =>
       /\ main.download = "ok" => main.outcome \in {"True", "False", "fault"}
       /\ (main.outcome = "True" /\ main.bucket_set /\ main.upload_ok) =>
             "highlight" \in main.uploads
       /\ main.uploads # {} => main.outcome = "True"

\* C19: once the size check has passed, on every exit path the cleanup runs
\* and attempts to remove each of the three temporary files that exists, and
\* no exception reaches the caller; a file larger than MAX_FILE_SIZE_BYTES is
\* rejected before any download or processing.
C19_CleanupOnEveryExit ==
    /\ ~main.escaped
    /\ (main.pc = "returned" /\ main.file_size <= MAX_FILE_SIZE_BYTES) =>
          /\ main.cleanup
          /\ main.attempted = TempPaths \cap main.at_cleanup
          /\ main.exists = main.at_cleanup \ (TempPaths \ main.remove_fails)
    /\ (main.pc = "returned" /\ main.file_size > MAX_FILE_SIZE_BYTES) =>
          /\ ~main.downloaded
          /\ main.outcome = "none"
          /\ main.uploads = {}
    /\ main.pc = "try" => main.file_size <= MAX_FILE_SIZE_BYTES

\* the call of the pipeline raised, the handler caught it, and the cleanup
\* removed the downloaded input file
C19_Witness ==
    /\ main.pc = "returned"
    /\ main.exc = "TypeError"
    /\ "input" \in main.attempted
    /\ "input" \notin main.exists


\* =================== intervals lie inside the clip ===================
\* the duration of the clip the running scan segments, and its samples
ScannedDuration == IF InSteadyScan THEN clip_duration ELSE steady_duration
ScannedSamples == IF InSteadyScan THEN frames ELSE action_scores

\* no sample has a timestamp beyond the duration of the clip
TimestampsWithin ==
    \A i \in 1 .. Len(ScannedSamples) : ScannedSamples[i][1] <= ScannedDuration

\* C21: given strictly increasing sample timestamps not beyond the duration of
\* the clip being segmented, every interval either scan returns satisfies
\* 0 <= start < end <= that duration.
C21_IntervalsInsideClip ==
    ((InSteadyScan \/ InActionScan) /\ TimestampsWithin) =>
       \A k \in 1 .. Len(good_segments) :
          /\ 0 <= good_segments[k][1]
          /\ good_segments[k][1] < good_segments[k][2]
          /\ good_segments[k][2] <= ScannedDuration

\* the action scan returned a closed run and a run closed against the duration
C21_Witness ==
    /\ pc = "action_ret"
    /\ TimestampsWithin
    /\ Len(good_segments) >= 2
    /\ Last(good_segments)[2] = steady_duration
    /\ good_segments[1][1] = 0

====
